---- MODULE Spec2Model ----
(***************************************************************************)
(* A model of spotify-extras (src/spotify-extras.py): the notification     *)
(* and media-key daemon for qt Spotify.                                    *)
(*                                                                         *)
(* Python strings are modelled as sequences of Unicode code points, so     *)
(* that formatting ('%s-%s', '%s\n%s (%s)'), slicing ([:4]), splitting     *)
(* (split(':')[-1]), UTF-8 encoding and base64 encoding are computed as    *)
(* the code computes them.                                                 *)
(*                                                                         *)
(* The daemon is single threaded: a handler of a bus signal runs on the    *)
(* glib main loop and every call it makes is synchronous.  The only places *)
(* where the rest of the world moves while a handler is running are the    *)
(* blocking network requests of update_track_icon, so a handler is one     *)
(* action up to the point where it blocks in urllib2.urlopen, and one      *)
(* action per answer of the network afterwards.                            *)
(***************************************************************************)
EXTENDS Integers, Sequences, FiniteSets, TLC

VARIABLES
    last_track,         \* Application.last_track: None or (status, track)
    last_notification,  \* Application.last_notification: 0 or a handle
    mode,               \* "constructed" (before run), "loop", "dead"
    info,               \* local `info` of the running update_track_display
    root,               \* what called the running update_track_display
    fetch,              \* the update_track_icon call blocked in urlopen
    subs,               \* PropertiesChanged handlers connected to the player
    owner_sub,          \* NameOwnerChanged handler connected
    queue,              \* bus signals delivered to the daemon, not yet handled
    player,             \* the player process: up, status, track
    files,              \* paths that exist in the file system
    live,               \* notification service: ids of the live notifications
    next_id,            \* notification service: next fresh id
    svc_last,           \* notification service: the id its last Notify returned
    log,                \* the calls of the handler that runs or just ended
    fetched,            \* icon paths an artwork fetch was ever started for
    keys_sub,           \* MediaPlayerKeyPressed handler connected
    gsd                 \* the settings daemon (media keys) is on the bus

vars == <<last_track, last_notification, mode, info, root, fetch, subs,
          owner_sub, queue, player, files, live, next_id, svc_last, log,
          fetched, keys_sub, gsd>>

-----------------------------------------------------------------------------
(* Bounds of the model. *)

\* Fresh notification ids handed out before the main loop stops dispatching.
MaxId == 3
\* Bus signals waiting for the main loop.
MaxQueue == 1

-----------------------------------------------------------------------------
(* Python values. *)

\* None where the code holds a tuple, a dict or an object
None == [none |-> TRUE]

\* None where the code holds a path
NoPath == <<>>

Min(a, b) == IF a < b THEN a ELSE b

\* s[:n]
Take(s, n) == SubSeq(s, 1, Min(n, Len(s)))

\* s.split(':')[-1]: what follows the last ':' (58)
RECURSIVE LastSegment(_)
LastSegment(s) ==
    IF \A i \in 1..Len(s) : s[i] # 58 THEN s
    ELSE LastSegment(Tail(s))

\* unicode.encode('utf-8')
RECURSIVE Utf8(_)
Utf8(s) ==
    IF s = <<>> THEN <<>>
    ELSE LET c == Head(s)
             b == IF c < 128 THEN <<c>>
                  ELSE IF c < 2048 THEN <<192 + (c \div 64), 128 + (c % 64)>>
                  ELSE IF c < 65536
                       THEN <<224 + (c \div 4096), 128 + ((c \div 64) % 64),
                              128 + (c % 64)>>
                  ELSE <<240 + (c \div 262144), 128 + ((c \div 4096) % 64),
                         128 + ((c \div 64) % 64), 128 + (c % 64)>>
         IN b \o Utf8(Tail(s))

\* The base64 alphabet A-Z a-z 0-9 + /, as code points.
B64Alphabet ==
    <<65, 66, 67, 68, 69, 70, 71, 72, 73, 74, 75, 76, 77, 78, 79, 80, 81, 82,
      83, 84, 85, 86, 87, 88, 89, 90, 97, 98, 99, 100, 101, 102, 103, 104, 105,
      106, 107, 108, 109, 110, 111, 112, 113, 114, 115, 116, 117, 118, 119,
      120, 121, 122, 48, 49, 50, 51, 52, 53, 54, 55, 56, 57, 43, 47>>

B64Char(sextet) == B64Alphabet[sextet + 1]

\* base64.b64encode over a sequence of bytes; '=' (61) pads the last group.
RECURSIVE b64encode(_)
b64encode(bytes) ==
    IF bytes = <<>> THEN <<>>
    ELSE IF Len(bytes) = 1
    THEN <<B64Char(bytes[1] \div 4), B64Char((bytes[1] % 4) * 16), 61, 61>>
    ELSE IF Len(bytes) = 2
    THEN <<B64Char(bytes[1] \div 4),
           B64Char((bytes[1] % 4) * 16 + (bytes[2] \div 16)),
           B64Char((bytes[2] % 16) * 4), 61>>
    ELSE <<B64Char(bytes[1] \div 4),
           B64Char((bytes[1] % 4) * 16 + (bytes[2] \div 16)),
           B64Char((bytes[2] % 16) * 4 + (bytes[3] \div 64)),
           B64Char(bytes[3] % 64)>> \o b64encode(SubSeq(bytes, 4, Len(bytes)))

\* os.path.join(a, b) for two components
path_join(a, b) ==
    IF b # <<>> /\ b[1] = 47 THEN b
    ELSE IF a = <<>> \/ a[Len(a)] = 47 THEN a \o b
    ELSE a \o <<47>> \o b

-----------------------------------------------------------------------------
(* Class attributes and path helpers of Application. *)

\* '~/.cache/spotify-extras'
cache_dir ==
    <<126, 47, 46, 99, 97, 99, 104, 101, 47, 115, 112, 111, 116, 105, 102, 121,
      45, 101, 120, 116, 114, 97, 115>>

\* 'http://open.spotify.com/track/%s' without the %s
spotify_track_url ==
    <<104, 116, 116, 112, 58, 47, 47, 111, 112, 101, 110, 46, 115, 112, 111,
      116, 105, 102, 121, 46, 99, 111, 109, 47, 116, 114, 97, 99, 107, 47>>

get_icon_path(icon) == path_join(cache_dir, icon)

\* 'default'
default_icon_path == get_icon_path(<<100, 101, 102, 97, 117, 108, 116>>)

get_track_icon_path(track) ==
    LET raw_icon_name == track.artist \o <<45>> \o track.album
        icon_name == b64encode(Utf8(raw_icon_name))
    IN get_icon_path(icon_name)

get_track_url(track) == spotify_track_url \o LastSegment(track.trackid)

\* open(path, 'wb') can create the file only in an existing directory: the
\* cache directory is the only one there is, and it has no subdirectories.
CanCreate(path) ==
    /\ Len(path) > Len(cache_dir) + 1
    /\ SubSeq(path, 1, Len(cache_dir) + 1) = cache_dir \o <<47>>
    /\ \A i \in (Len(cache_dir) + 2)..Len(path) : path[i] # 47

-----------------------------------------------------------------------------
(* The tracks the player can report. *)

\* 'spotify:track:'
TrackIdPrefix ==
    <<115, 112, 111, 116, 105, 102, 121, 58, 116, 114, 97, 99, 107, 58>>

\* 1997-09-12
Date1997 == <<49, 57, 57, 55, 45, 48, 57, 45, 49, 50>>

\* 'Bj\"ork' with o-umlaut (246): two bytes in UTF-8
Bjork == <<66, 106, 246, 114, 107>>

\* artist Bjork, album 'X', title 'p'
TrackA1 ==
    [artist |-> Bjork, album |-> <<88>>, title |-> <<112>>,
     contentCreated |-> Date1997, trackid |-> TrackIdPrefix \o <<97, 49>>]

\* artist Bjork, album 'X', title 'q': another track of the same album, with
\* a date shorter than 4 characters ('97')
TrackA2 ==
    [artist |-> Bjork, album |-> <<88>>, title |-> <<113>>,
     contentCreated |-> <<57, 55>>, trackid |-> TrackIdPrefix \o <<97, 50>>]

\* artist 'a', album '?': 'a-?' encodes to 'YS0/', a name with a slash
Track_Q ==
    [artist |-> <<97>>, album |-> <<63>>, title |-> <<115>>,
     contentCreated |-> Date1997, trackid |-> TrackIdPrefix \o <<99, 49>>]

Tracks == {TrackA1, TrackA2, Track_Q}

Statuses == {"Playing", "Paused", "Stopped"}

\* What get_playback_info returns: the tuple (status, track).  The player
\* plays every track, pauses one and stops on another.
Infos ==
    [status : {"Playing"}, track : Tracks]
        \cup [status : {"Paused"}, track : {TrackA1}]
        \cup [status : {"Stopped"}, track : {TrackA2}]

IconPaths == {get_track_icon_path(t) : t \in Tracks}

\* Key names the settings daemon sends; "Stop" is not in the daemon's table.
Keys == {"Next", "Play", "Previous", "Stop"}

PlayerName == "org.mpris.MediaPlayer2.spotify"

NoPlayer == [up |-> FALSE, status |-> "", track |-> None]

-----------------------------------------------------------------------------
(* The state the daemon's calls read and change, threaded through a handler. *)

Ctx(lg) ==
    [last_notification |-> last_notification, live |-> live,
     next_id |-> next_id, svc_last |-> svc_last, files |-> files,
     log |-> lg, exc |-> "none", fetch |-> FALSE]

\* A _notify that neither closes nor names the notification before.
_notify_stacks(c, summary, icon_path_arg, body, close_err) ==
    [c EXCEPT !.log = Append(@, [op |-> "Notify", replaces_id |-> 0,
                                 app_icon |-> IF icon_path_arg = NoPath
                                              THEN default_icon_path
                                              ELSE icon_path_arg,
                                 summary |-> summary, body |-> body,
                                 ret |-> c.next_id, prev_ret |-> c.svc_last]),
              !.live = c.live \cup {c.next_id},
              !.next_id = c.next_id + 1,
              !.svc_last = c.next_id,
              !.last_notification = c.next_id]

\* Application._notify.  close_err is the notification service's choice:
\* whether CloseNotification of a notification that is gone answers with an
\* error.  Notify returns a fresh id: the notification it is told to replace
\* was closed by the call before.
_notify(c, summary, icon_path_arg, body, close_err) ==
    LET icon_path == IF icon_path_arg = NoPath THEN default_icon_path
                     ELSE icon_path_arg
        closing == c.last_notification # 0
        close_ok == c.last_notification \in c.live \/ ~close_err
        closed == [op |-> "CloseNotification", id |-> c.last_notification,
                   ok |-> close_ok]
        log1 == IF closing THEN Append(c.log, closed) ELSE c.log
        ret == c.next_id
        call == [op |-> "Notify", replaces_id |-> c.last_notification,
                 app_icon |-> icon_path, summary |-> summary, body |-> body,
                 ret |-> ret, prev_ret |-> c.svc_last]
    IN IF closing /\ ~close_ok
       THEN [c EXCEPT !.log = log1, !.exc = "DBusException"]
       ELSE [c EXCEPT !.log = Append(log1, call),
                      !.live = (c.live \ {c.last_notification}) \cup {ret},
                      !.next_id = c.next_id + 1,
                      !.svc_last = ret,
                      !.last_notification = ret]

\* '[stopped]'
StoppedSummary == <<91, 115, 116, 111, 112, 112, 101, 100, 93>>

\* A body that shows the whole creation date.
NotifyBody_whole_date(track) ==
    track.title \o <<10>> \o track.album \o <<32, 40>>
        \o track.contentCreated \o <<41>>

\* '%s\n%s (%s)' % (title, album, contentCreated[:4])
NotifyBody(track) ==
    track.title \o <<10>> \o track.album \o <<32, 40>>
        \o Take(track.contentCreated, 4) \o <<41>>

\* A notify that puts '[stopped]' into the body.
stopped_in_body ==
    [summary |-> <<>>, icon_path |-> NoPath, body |-> StoppedSummary]

\* notify, line 121: self._notify("[stopped]")
stopped_args == [summary |-> StoppedSummary, icon_path |-> NoPath, body |-> <<>>]

\* A notify that fetches the artwork whatever icon it has shown.
needs_fetch_always(icon_path, track_icon_path) == TRUE

\* notify, line 141: if icon_path != track_icon_path
needs_fetch(icon_path, track_icon_path) == icon_path # track_icon_path

\* A notify that never finds the cached icon.
icon_exists_never(fs, path) == FALSE

\* notify, line 134: os.path.exists(track_icon_path)
icon_exists(fs, path) == path \in fs

\* Application.notify, up to the point where it calls update_track_icon:
\* .fetch tells whether it does.
notify(c, status, track, close_err) ==
    LET c1 == [c EXCEPT !.log = Append(@, [op |-> "notify",
                                 status |-> status, track |-> track])]
    IN IF status = "Stopped"
       THEN _notify(c1, stopped_args.summary, stopped_args.icon_path,
                    stopped_args.body, close_err)
       ELSE LET summary == track.artist
                body == NotifyBody(track)
                track_icon_path == get_track_icon_path(track)
                icon_path == IF icon_exists(c.files, track_icon_path)
                             THEN track_icon_path ELSE NoPath
                c2 == _notify(c1, summary, icon_path, body, close_err)
            IN IF c2.exc # "none" THEN c2
               ELSE [c2 EXCEPT !.fetch = needs_fetch(icon_path,
                                                     track_icon_path)]

-----------------------------------------------------------------------------
(* How a call of update_track_display ends, and what its caller does next. *)

\* A main loop that dispatches while update_track_icon waits for the network,
\* as it would with the fetch on a thread of its own.
Idle_while_fetching == mode = "loop"

\* The main loop can dispatch: run has reached loop.run(), and no handler is
\* running.  notify calls update_track_icon in line 142 and waits for it.
Idle == mode = "loop" /\ fetch = None

\* The handler's last log entry: the exception that left it, or "none".
Ended(lg, exc) == Append(lg, [op |-> "end", exc |-> exc])

\* The rest of start_notifications after update_track_display, and of run
\* after start_notifications.  kind is "signal" (PropertiesChanged handler),
\* "restart" (restart_notifications) or "run" (Application.run).
Caller(kind, exc) ==
    LET connects == exc = "none" /\ player.up
        escapes == exc \notin {"none", "DBusException"}
    IN /\ subs' = IF kind # "signal" /\ connects THEN subs + 1 ELSE subs
       /\ IF kind # "run" THEN UNCHANGED <<mode, owner_sub, keys_sub>>
          ELSE IF escapes
          THEN mode' = "dead" /\ UNCHANGED <<owner_sub, keys_sub>>
          ELSE /\ owner_sub' = TRUE
               /\ keys_sub' = gsd
               /\ mode' = IF gsd THEN "loop" ELSE "dead"

\* An update_track_display that does not store what it has shown.
Return_forgets(kind, i, lg) ==
    /\ last_track' = last_track
    /\ log' = Ended(lg, "none")
    /\ info' = None /\ root' = "" /\ fetch' = None
    /\ Caller(kind, "none")

\* update_track_display returns: line 158 stores info.
Return(kind, i, lg) ==
    /\ last_track' = i
    /\ log' = Ended(lg, "none")
    /\ info' = None /\ root' = "" /\ fetch' = None
    /\ Caller(kind, "none")

\* An exception leaves update_track_display: line 158 is not reached.
Raise(kind, exc, lg) ==
    /\ last_track' = last_track
    /\ log' = Ended(lg, exc)
    /\ info' = None /\ root' = "" /\ fetch' = None
    /\ Caller(kind, exc)

\* A notify that fetches the artwork before it shows the notification.
StartFetch_first(kind, i, track, lg) ==
    /\ fetch' = [track |-> track, phase |-> "page"]
    /\ info' = i /\ root' = kind
    /\ log' = SubSeq(lg, 1, Len(lg) - 1)
                 \o <<[op |-> "urlopen", kind |-> "page",
                       url |-> get_track_url(track)], lg[Len(lg)]>>
    /\ fetched' = fetched \cup {get_track_icon_path(track)}
    /\ UNCHANGED <<last_track, mode, subs, owner_sub, keys_sub>>

\* Application.update_track_icon up to its first urlopen, where it blocks.
StartFetch(kind, i, track, lg) ==
    /\ fetch' = [track |-> track, phase |-> "page"]
    /\ info' = i /\ root' = kind
    /\ log' = Append(lg, [op |-> "urlopen", kind |-> "page",
                           url |-> get_track_url(track)])
    /\ fetched' = fetched \cup {get_track_icon_path(track)}
    /\ UNCHANGED <<last_track, mode, subs, owner_sub, keys_sub>>

\* The daemon's state after notify(status, track) came to c.
AfterNotify(kind, i, track, c) ==
    /\ last_notification' = c.last_notification
    /\ live' = c.live
    /\ next_id' = c.next_id
    /\ svc_last' = c.svc_last
    /\ IF c.exc # "none"
       THEN Raise(kind, c.exc, c.log) /\ UNCHANGED fetched
       ELSE IF c.fetch
       THEN StartFetch(kind, i, track, c.log)
       ELSE Return(kind, i, c.log) /\ UNCHANGED fetched

-----------------------------------------------------------------------------
(* Reading a handler's log. *)

\* get_playback_info raised DBusException: no player on the bus
QueryFailed == [exc |-> "DBusException"]

Ops(lg, op) == {k \in 1..Len(lg) : lg[k].op = op}

\* What the handler in lg did: the (status, track) pairs the player reported
\* to it, its notify calls, its Notify calls, the icon files it wrote to the
\* end, and the exception that left it ("none": it returned, "running": it
\* has not ended).
Summary(lg) ==
    [infos |-> {lg[k].result : k \in Ops(lg, "get_playback_info")}
                   \ {QueryFailed},
     presents |-> Cardinality(Ops(lg, "notify")),
     notifies |-> Cardinality(Ops(lg, "Notify")),
     commits |-> Cardinality({k \in Ops(lg, "write") : lg[k].ok}),
     exc |-> IF lg # <<>> /\ lg[Len(lg)].op = "end" THEN lg[Len(lg)].exc
             ELSE "running"]

\* update_track_icon calls on the stack of the running handler: each one
\* requested its track page.
Depth(lg) ==
    Cardinality({k \in Ops(lg, "urlopen") : lg[k].kind = "page"})

\* The model stops starting handlers that can notify once the service has
\* handed out MaxId ids.
WithinBounds == next_id <= MaxId

-----------------------------------------------------------------------------
(* Application.update_track_display, called from kind. *)

\* An update_track_display without the comparison.
changed_always(i) == TRUE

\* update_track_display, line 156: if info and info != self.last_track
changed(i) == i # last_track

update_track_display(kind, close_err) ==
    LET lg0 == <<[op |-> "update_track_display", caller |-> kind]>>
        i == [status |-> player.status, track |-> player.track]
        lg1 == Append(lg0, [op |-> "get_playback_info",
                            result |-> IF player.up THEN i
                                       ELSE QueryFailed])
    IN IF ~player.up
       THEN /\ Raise(kind, "DBusException", lg1)
            /\ UNCHANGED <<last_notification, live, next_id, svc_last,
                           fetched>>
       ELSE IF ~changed(i)
       THEN /\ Raise(kind, "none", lg1)
            /\ UNCHANGED <<last_notification, live, next_id, svc_last,
                           fetched>>
       ELSE AfterNotify(kind, i, i.track,
                        notify(Ctx(lg1), i.status, i.track, close_err))

\* Application.run: start_notifications(persist=True), listen_for_keys, and
\* the main loop.
Run ==
    /\ mode = "constructed" /\ fetch = None
    /\ \E close_err \in BOOLEAN :
           update_track_display("run", close_err)
    /\ UNCHANGED <<queue, player, files, gsd>>

\* The main loop hands a PropertiesChanged signal to update_track_display.
DispatchPropertiesChanged ==
    /\ Idle /\ WithinBounds
    /\ queue # <<>> /\ Head(queue).sig = "PropertiesChanged"
    /\ queue' = Tail(queue)
    /\ \E close_err \in BOOLEAN :
           update_track_display("signal", close_err)
    /\ UNCHANGED <<player, files, gsd>>

\* Application.restart_notifications
restart_notifications(sender, close_err) ==
    IF sender = PlayerName
    THEN update_track_display("restart", close_err)
    ELSE /\ log' = <<[op |-> "restart_notifications", sender |-> sender]>>
         /\ UNCHANGED <<last_track, last_notification, mode, info, root,
                        fetch, subs, owner_sub, keys_sub, live, next_id,
                        svc_last, fetched>>

DispatchNameOwnerChanged ==
    /\ Idle /\ WithinBounds
    /\ queue # <<>> /\ Head(queue).sig = "NameOwnerChanged"
    /\ queue' = Tail(queue)
    /\ \E close_err \in BOOLEAN :
           restart_notifications(Head(queue).arg, close_err)
    /\ UNCHANGED <<player, files, gsd>>

-----------------------------------------------------------------------------
(* Application.update_track_icon after its first urlopen. *)

\* The track page is answered: urlopen or read fails, the page has no
\* cover-art image, or img_re matches and the image is requested.
PageResponse ==
    /\ fetch # None /\ fetch.phase = "page"
    /\ \E outcome \in {"URLError", "miss", "match"} :
         LET lg == Append(log, [op |-> "response", result |-> outcome])
         IN CASE outcome = "URLError" ->
                  /\ Raise(root, "URLError", lg)
                  /\ UNCHANGED fetched
              [] outcome = "miss" ->
                  /\ Return(root, info, lg)
                  /\ UNCHANGED fetched
              [] outcome = "match" ->
                  /\ fetch' = [fetch EXCEPT !.phase = "image"]
                  /\ log' = Append(lg, [op |-> "urlopen", kind |-> "image",
                               url |-> <<>>])
                  /\ UNCHANGED <<last_track, mode, info, root, subs,
                                 owner_sub, keys_sub, fetched>>
    /\ UNCHANGED <<last_notification, live, next_id, svc_last, queue, player,
                   files, gsd>>

\* An update_track_icon that shows again the state that started the fetch.
refreshed_info_triggering == info

\* update_track_icon, line 103: self.get_playback_info() asks the player
\* again.
refreshed_info == [status |-> player.status, track |-> player.track]

\* The image request is answered.  The file is opened for writing after the
\* answer arrived and before its bytes are read.
ImageResponse ==
    /\ fetch # None /\ fetch.phase = "image"
    /\ \E outcome \in {"URLError", "open fails", "write fails", "ok"},
          close_err \in BOOLEAN :
         LET path == get_track_icon_path(fetch.track)
             lg == Append(log, [op |-> "response", result |->
                        IF outcome = "URLError" THEN outcome ELSE "ok"])
             opened == Append(lg, [op |-> "open", path |-> path, ok |-> TRUE])
             i == refreshed_info
         IN /\ outcome \in {"write fails", "ok"} => CanCreate(path)
            /\ CASE outcome = "URLError" ->
                     /\ Raise(root, "URLError", lg)
                     /\ UNCHANGED <<files, last_notification, live, next_id,
                                    svc_last, fetched>>
                 [] outcome = "open fails" ->
                     /\ Raise(root, "IOError",
                              Append(lg, [op |-> "open", path |-> path,
                                          ok |-> FALSE]))
                     /\ UNCHANGED <<files, last_notification, live, next_id,
                                    svc_last, fetched>>
                 [] outcome = "write fails" ->
                     /\ files' = files \cup {path}
                     /\ Raise(root, "IOError",
                              Append(opened, [op |-> "write", path |-> path,
                                              ok |-> FALSE]))
                     /\ UNCHANGED <<last_notification, live, next_id,
                                    svc_last, fetched>>
                 [] outcome = "ok" ->
                     LET written == Append(opened, [op |-> "write",
                                             path |-> path, ok |-> TRUE])
                         queried == Append(written,
                                      [op |-> "get_playback_info",
                                       result |-> IF player.up THEN i
                                                  ELSE QueryFailed])
                     IN /\ files' = files \cup {path}
                        /\ IF ~player.up
                           THEN /\ Raise(root, "DBusException", queried)
                                /\ UNCHANGED <<last_notification, live,
                                               next_id, svc_last, fetched>>
                           ELSE AfterNotify(root, info, i.track,
                                    notify([Ctx(queried) EXCEPT
                                                !.files = files \cup {path}],
                                           i.status, i.track, close_err))
    /\ UNCHANGED <<queue, player, gsd>>

-----------------------------------------------------------------------------
(* Media keys. *)

\* A key table with two commands exchanged.
KeyCommands_swapped ==
    [Next |-> "Previous", Play |-> "PlayPause", Previous |-> "Next"]

KeyCommands == [Next |-> "Next", Play |-> "PlayPause", Previous |-> "Previous"]

\* A player_command that does not look for the player first, as if the
\* command were kept for the player to come.
player_command_unguarded(lg, command) ==
    Append(lg, [op |-> "player", method |-> command])

\* Application.player_command
player_command(lg, command) ==
    IF ~player.up
    THEN Append(lg, [op |-> "get_interface", result |-> "DBusException"])
    ELSE Append(lg, [op |-> "player", method |-> command])

\* Application.media_player_key_pressed
media_player_key_pressed(key) ==
    LET lg == <<[op |-> "media_player_key_pressed", key |-> key]>>
    IN IF key \in DOMAIN KeyCommands
       THEN player_command(lg, KeyCommands[key])
       ELSE lg

DispatchKeyPressed ==
    /\ Idle
    /\ queue # <<>> /\ Head(queue).sig = "MediaPlayerKeyPressed"
    /\ queue' = Tail(queue)
    /\ \E key \in Keys : log' = media_player_key_pressed(key)
    /\ UNCHANGED <<last_track, last_notification, mode, info, root, fetch,
                   subs, owner_sub, player, files, live, next_id, svc_last,
                   fetched, keys_sub, gsd>>

-----------------------------------------------------------------------------
(* The rest of the world: the player, the bus, the notification service. *)

\* The daemon's process is running (in run, or in the main loop).
Running == mode = "loop" \/ fetch # None

Signal(sig, arg) == [sig |-> sig, arg |-> arg]

\* n copies of a signal, one per connected handler
Copies(n, e) == [k \in 1..n |-> e]

\* The daemon does not move, a signal arrives.
UNCHANGED_daemon ==
    UNCHANGED <<last_track, last_notification, mode, info, root, fetch,
                owner_sub, log, fetched, keys_sub, gsd, files, next_id,
                svc_last>>

\* The daemon does not move, the world around it changes.  The log shows a
\* handler that has ended only as long as the player and the notification
\* service are as that handler left them.
WorldChanges ==
    /\ log' = IF fetch = None THEN <<>> ELSE log
    /\ UNCHANGED <<last_track, last_notification, mode, info, root, fetch,
                   owner_sub, fetched, keys_sub, gsd, files, next_id,
                   svc_last>>

\* The player changes its status or track and says so.
PlayerChange ==
    /\ Running /\ player.up
    /\ Len(queue) + subs <= MaxQueue
    /\ \E i \in Infos :
         /\ i # [status |-> player.status, track |-> player.track]
         /\ player' = [up |-> TRUE, status |-> i.status, track |-> i.track]
    /\ queue' = queue \o Copies(subs, Signal("PropertiesChanged", PlayerName))
    /\ WorldChanges /\ UNCHANGED <<subs, live>>

\* The player signals a change of another property (volume, position).
PlayerSignal ==
    /\ Running /\ player.up /\ subs > 0
    /\ Len(queue) + subs <= MaxQueue
    /\ queue' = queue \o Copies(subs, Signal("PropertiesChanged", PlayerName))
    /\ UNCHANGED_daemon /\ UNCHANGED <<subs, live, player>>

\* The player exits: the handlers connected to its unique name are dead.
PlayerQuit ==
    /\ Running /\ player.up
    /\ owner_sub => Len(queue) < MaxQueue
    /\ player' = NoPlayer
    /\ subs' = 0
    /\ queue' = IF owner_sub
                THEN Append(queue, Signal("NameOwnerChanged", PlayerName))
                ELSE queue
    /\ WorldChanges /\ UNCHANGED live

\* A new player process takes the player's bus name.
PlayerStart ==
    /\ Running /\ ~player.up
    /\ owner_sub => Len(queue) < MaxQueue
    /\ \E i \in Infos :
         player' = [up |-> TRUE, status |-> i.status, track |-> i.track]
    /\ queue' = IF owner_sub
                THEN Append(queue, Signal("NameOwnerChanged", PlayerName))
                ELSE queue
    /\ WorldChanges /\ UNCHANGED <<subs, live>>

\* Another bus name changes its owner.
OtherNameOwnerChanged ==
    /\ Running /\ owner_sub
    /\ Len(queue) < MaxQueue
    /\ queue' = Append(queue, Signal("NameOwnerChanged", "org.example.Other"))
    /\ UNCHANGED_daemon /\ UNCHANGED <<subs, live, player>>

\* A media key is pressed.  Which key it is plays no part before the signal
\* is handled: DispatchKeyPressed draws it.
KeyPress ==
    /\ Running /\ keys_sub
    /\ Len(queue) < MaxQueue
    /\ queue' = Append(queue, Signal("MediaPlayerKeyPressed", "key"))
    /\ UNCHANGED_daemon /\ UNCHANGED <<subs, live, player>>

\* A notification expires or is dismissed.
Expire ==
    /\ Running
    /\ \E id \in live : live' = live \ {id}
    /\ WorldChanges /\ UNCHANGED <<subs, queue, player>>

-----------------------------------------------------------------------------

\* The state after Application() was constructed: the cache directory holds
\* the default icon and the icons earlier runs have written.
Init ==
    /\ last_track = None
    /\ last_notification = 0
    /\ mode = "constructed"
    /\ info = None /\ root = "" /\ fetch = None
    /\ subs = 0 /\ owner_sub = FALSE /\ keys_sub = FALSE
    /\ queue = <<>>
    /\ player \in {NoPlayer}
          \cup {[up |-> TRUE, status |-> i.status, track |-> i.track] :
                    i \in Infos}
    /\ \E S \in SUBSET {p \in IconPaths : CanCreate(p)} :
           files = {default_icon_path} \cup S
    /\ live = {} /\ next_id = 1 /\ svc_last = 0
    /\ log = <<>>
    /\ fetched = {}
    /\ gsd \in BOOLEAN

Next ==
    \/ Run
    \/ DispatchPropertiesChanged
    \/ DispatchNameOwnerChanged
    \/ DispatchKeyPressed
    \/ PageResponse
    \/ ImageResponse
    \/ PlayerChange
    \/ PlayerSignal
    \/ PlayerQuit
    \/ PlayerStart
    \/ OtherNameOwnerChanged
    \/ KeyPress
    \/ Expire

Spec == Init /\ [][Next]_vars

-----------------------------------------------------------------------------
(* Reading the log of update_track_display. *)

IsDisplay(lg) == lg # <<>> /\ lg[1].op = "update_track_display"

\* What the player reported to the update_track_display call in lg.
Queried(lg) == lg[2].result

\* In this step the main loop hands a signal to its handler, or run calls
\* start_notifications.
HandlerStarts ==
    fetch = None /\ (Len(queue') < Len(queue) \/ mode = "constructed")

\* The handler in lg called nothing but the player's properties.
NoEffects(lg) ==
    \A k \in 1..Len(lg) :
        lg[k].op \notin {"notify", "CloseNotification", "Notify", "urlopen",
                         "open", "write"}

\* The Notify call of the notify call logged at k; 0 when it made none.
NotifyOf(lg, k) ==
    IF k + 1 <= Len(lg) /\ lg[k + 1].op = "Notify" THEN k + 1
    ELSE IF k + 2 <= Len(lg) /\ lg[k + 2].op = "Notify" THEN k + 2
    ELSE 0

\* The file p existed when the call logged at k was made: it exists now and
\* was not created later in lg.
ExistedAt(lg, k, p) ==
    /\ p \in files
    /\ \A j \in (k + 1)..Len(lg) :
           ~(lg[j].op = "open" /\ lg[j].ok /\ lg[j].path = p)

\* A fetch for the icon path p starts in this step.
FetchStarts(p) ==
    /\ fetch' # None
    /\ fetch'.phase = "page"
    /\ fetch = None \/ fetch.phase = "image"
    /\ get_track_icon_path(fetch'.track) = p

-----------------------------------------------------------------------------
(* The claims. *)

\* C1: when update_track_display runs and the (status, track) it queries
\* equals last_track, the call does nothing: no notify, no Notify, no
\* CloseNotification, no network request, no file written, and last_track,
\* last_notification, the cache and the live notifications stay as they are.
C1_DedupIsNoOp ==
    [][(HandlerStarts /\ IsDisplay(log') /\ Queried(log') = last_track)
          => /\ NoEffects(log')
             /\ last_track' = last_track
             /\ last_notification' = last_notification
             /\ files' = files /\ live' = live /\ fetch' = None]_vars

\* An update_track_display that found the state it had stored has ended.
C1_Witness ==
    /\ IsDisplay(log) /\ Len(log) = 3
    /\ last_track # None /\ Queried(log) = last_track
    /\ log[3] = [op |-> "end", exc |-> "none"]

\* In this step update_track_display runs right after an update_track_display
\* call that has ended; both got i from the player (and nothing else), and
\* the first found it changed.
SecondOfTwo(i) ==
    /\ HandlerStarts /\ IsDisplay(log) /\ IsDisplay(log')
    /\ Summary(log).infos = {i} /\ Summary(log).presents > 0
    /\ Queried(log') = i

\* C2 as claimed: two update_track_display calls in a row that get the same
\* (status, track) issue exactly one Notify call in total, whatever the cache
\* holds and however the fetch ends.
C2_ExactlyOneNotify ==
    [][\A i \in Infos :
          (SecondOfTwo(i) /\ fetch' = None)
              => Summary(log).notifies + Summary(log').notifies = 1]_vars

\* C2 amended: if the first call returns, it has issued one Notify call, or
\* two when its fetch wrote the icon, and the second call does nothing; if an
\* exception left the first call, the state was not stored and the second
\* call presents it again.
C2_SecondCallAfterFirst ==
    [][\A i \in Infos :
          SecondOfTwo(i)
              => IF Summary(log).exc = "none"
                 THEN /\ Summary(log).notifies = 1 + Summary(log).commits
                      /\ Summary(log).commits \in {0, 1}
                      /\ NoEffects(log') /\ fetch' = None
                 ELSE Summary(log').presents >= 1]_vars

\* A first call whose fetch succeeded has returned after two Notify calls,
\* the player still reports the same, and the next PropertiesChanged signal
\* is about to be handled.
C2_Witness ==
    /\ Idle /\ WithinBounds /\ IsDisplay(log) /\ player.up
    /\ Summary(log).infos = {[status |-> player.status,
                              track |-> player.track]}
    /\ Summary(log).exc = "none"
    /\ Summary(log).commits = 1 /\ Summary(log).notifies = 2
    /\ queue # <<>> /\ Head(queue).sig = "PropertiesChanged"

\* C3: at most one notification of the daemon is live, and every Notify call
\* names the handle the Notify call before it returned, or 0, without a
\* CloseNotification call before it, when there was none.
C3_Replacement ==
    /\ Cardinality(live) <= 1
    /\ \A k \in Ops(log, "Notify") :
           /\ log[k].replaces_id = log[k].prev_ret
           /\ log[k].prev_ret = 0 => log[k - 1].op # "CloseNotification"

\* A Notify call has replaced an earlier notification, and its own is live.
C3_Witness ==
    \E k \in Ops(log, "Notify") :
        /\ log[k].replaces_id # 0
        /\ log[k - 1] = [op |-> "CloseNotification",
                         id |-> log[k].replaces_id, ok |-> TRUE]
        /\ live = {log[k].ret}

\* '[stopped]'
Text_stopped == <<91, 115, 116, 111, 112, 112, 101, 100, 93>>

FirstFour(s) == SubSeq(s, 1, IF Len(s) < 4 THEN Len(s) ELSE 4)

\* C5: the notification for a Playing or Paused state has the artist as its
\* summary, 'title\nalbum (year)' as its body, year being the first 4
\* characters of the creation date, and as its icon the cached art path of
\* (artist, album) if that file existed when it was presented, the default
\* icon otherwise.
C5_TrackNotification ==
    \A k \in Ops(log, "notify") :
        LET n == NotifyOf(log, k)
            t == log[k].track
            p == get_track_icon_path(t)
        IN (log[k].status \in {"Playing", "Paused"} /\ n # 0)
               => /\ log[n].summary = t.artist
                  /\ log[n].body = t.title \o <<10>> \o t.album \o <<32, 40>>
                                       \o FirstFour(t.contentCreated) \o <<41>>
                  /\ log[n].app_icon = IF ExistedAt(log, k, p) THEN p
                                       ELSE default_icon_path

\* The second track of the album, with its short date, has been notified
\* with the cached icon: body 'q\nX (97)'.
C5_Witness ==
    \E k \in Ops(log, "Notify") :
        /\ log[k].summary = Bjork
        /\ log[k].body = <<113, 10, 88, 32, 40, 57, 55, 41>>
        /\ log[k].app_icon = get_track_icon_path(TrackA2)

\* C6: if the cache holds the file of (artist, album), presenting a track of
\* that artist and album makes no network request.
C6_CacheHitNoRequest ==
    \A k \in Ops(log, "notify") :
        (/\ log[k].status # "Stopped"
         /\ ExistedAt(log, k, get_track_icon_path(log[k].track)))
            => \A j \in (k + 1)..Len(log) : log[j].op # "urlopen"

\* A track whose icon is cached has been presented with it.
C6_Witness ==
    /\ IsDisplay(log) /\ Summary(log).exc = "none"
    /\ \E k \in Ops(log, "notify") :
           /\ log[k].status = "Playing"
           /\ ExistedAt(log, k, get_track_icon_path(log[k].track))
           /\ NotifyOf(log, k) # 0
           /\ log[NotifyOf(log, k)].app_icon
                  = get_track_icon_path(log[k].track)

C8_NotifyBeforeFetch ==
    \A j \in Ops(log, "urlopen") :
        log[j].kind = "page"
            => /\ log[j - 1].op = "Notify"
               /\ log[j - 1].app_icon = default_icon_path
               /\ \E k \in Ops(log, "notify") :
                      /\ NotifyOf(log, k) = j - 1
                      /\ log[k].status \in {"Playing", "Paused"}
                      /\ log[j - 1].summary = log[k].track.artist
                      /\ log[j].url = get_track_url(log[k].track)

\* The page of a track is requested, its notification is out.
C8_Witness ==
    /\ fetch # None /\ fetch.phase = "page"
    /\ log[Len(log)].op = "urlopen"
    /\ log[Len(log) - 1].op = "Notify"
    /\ live = {log[Len(log) - 1].ret}

RequestFails ==
    /\ fetch # None
    /\ Len(log') > Len(log)
    /\ log'[Len(log) + 1] = [op |-> "response", result |-> "URLError"]

\* C10 as claimed: when the page request or the image request fails, the
\* fetch ends silently: no exception leaves update_track_display, the state
\* is stored as last_track and the daemon keeps running.
C10_FetchFailsSilently ==
    [][RequestFails
          => /\ log'[Len(log')] = [op |-> "end", exc |-> "none"]
             /\ last_track' = info
             /\ mode' # "dead"]_vars

\* In this step the main loop hands a key press to media_player_key_pressed.
KeyHandled ==
    /\ HandlerStarts
    /\ log' # <<>> /\ log'[1].op = "media_player_key_pressed"

\* C11: for every key name media_player_key_pressed invokes at most one
\* player command: Next for "Next", PlayPause for "Play", Previous for
\* "Previous" (exactly one when the player is on the bus) and none for any
\* other key; last_track and last_notification stay as they are.
C11_KeyMapping ==
    [][KeyHandled
          => LET key == log'[1].key
                 cmds == Ops(log', "player")
                 want == CASE key = "Next" -> "Next"
                           [] key = "Play" -> "PlayPause"
                           [] key = "Previous" -> "Previous"
                           [] OTHER -> ""
             IN /\ Cardinality(cmds) <= 1
                /\ \A k \in cmds : log'[k].method = want
                /\ (want # "" /\ player.up) => Cardinality(cmds) = 1
                /\ want = "" => cmds = {}
                /\ last_track' = last_track
                /\ last_notification' = last_notification]_vars

\* The Play key has been handled with a player on the bus.
C11_Witness ==
    log = <<[op |-> "media_player_key_pressed", key |-> "Play"],
            [op |-> "player", method |-> "PlayPause"]>>

\* C12: when a recognized media key is handled while no player is on the
\* bus, no player command is invoked, nothing is kept for later (commands
\* are only ever invoked by the handler of their own key press, with a
\* player on the bus), the handler returns, and the daemon goes on
\* dispatching with its key subscription.
C12_KeyDroppedWithoutPlayer ==
    [][/\ (KeyHandled /\ ~player.up)
            => /\ Ops(log', "player") = {}
               /\ queue' = Tail(queue)
               /\ mode' = "loop" /\ keys_sub' /\ fetch' = None
               /\ UNCHANGED <<last_track, last_notification, live, player>>
       /\ (Ops(log', "player") # {} /\ log' # log)
            => KeyHandled /\ player.up]_vars

\* The Next key has been handled with no player on the bus, and the daemon
\* is in its main loop.
C12_Witness ==
    /\ log = <<[op |-> "media_player_key_pressed", key |-> "Next"],
               [op |-> "get_interface", result |-> "DBusException"]>>
    /\ ~player.up /\ mode = "loop" /\ keys_sub

\* The handler in lg has ended, it wrote the icon file once, and the player
\* reported i to it before and after the fetch.
FetchedUnchanged(lg, i) ==
    /\ IsDisplay(lg) /\ Summary(lg).exc # "running"
    /\ Summary(lg).commits = 1
    /\ {lg[k].result : k \in Ops(lg, "get_playback_info")} = {i}

\* C13: when a Playing track with no cached icon is presented and its fetch
\* succeeds while the player state is unchanged, exactly two Notify calls
\* are made for that state change: the first with the default icon, the
\* second with the same summary and body and the new icon path, naming the
\* handle the first returned.
C13_TwoNotifications ==
    \A i \in Infos :
        (FetchedUnchanged(log, i) /\ i.status = "Playing")
            => \E a, b \in Ops(log, "Notify") :
                   /\ a < b /\ Ops(log, "Notify") = {a, b}
                   /\ log[a].app_icon = default_icon_path
                   /\ log[b].app_icon = get_track_icon_path(i.track)
                   /\ log[b].summary = log[a].summary
                   /\ log[b].body = log[a].body
                   /\ log[b].replaces_id = log[a].ret

\* In this step the start_notifications call made by restart_notifications
\* for the player's bus name ends, after the player had answered its query.
RestartEnds ==
    /\ log' # log /\ IsDisplay(log') /\ log'[1].caller = "restart"
    /\ Summary(log').exc # "running"
    /\ Queried(log') # QueryFailed

\* C14: every time a new player process has taken the player's bus name and
\* restart_notifications has run for it, the daemon is subscribed to the
\* PropertiesChanged signal of that instance, so that its later state
\* changes reach update_track_display.
C14_SubscribedAfterRestart ==
    [][(RestartEnds /\ player.up) => subs' > 0]_vars

\* C15: a subscription failure does not stop the daemon: when run finds no
\* settings daemon to take the media-key signal from, it still subscribes to
\* NameOwnerChanged and enters its main loop.
C15_RunsWithoutKeySubscription ==
    [][(/\ mode = "constructed" /\ ~gsd
        /\ IsDisplay(log')
        /\ Summary(log').exc \in {"none", "DBusException"})
          => mode' = "loop" /\ owner_sub']_vars

\* The log entry of the icon file written in this step; 0 if none is.
Committed ==
    IF fetch # None /\ fetch.phase = "image"
          /\ \E k \in Ops(log', "write") : k > Len(log) /\ log'[k].ok
    THEN CHOOSE k \in Ops(log', "write") : k > Len(log) /\ log'[k].ok
    ELSE 0

\* C16 as claimed: when a fetch succeeds, the state presented again is
\* last_track as it is stored at that moment.
C16_RepresentsLastTrack ==
    [][(Committed # 0 /\ player.up)
          => [status |-> log'[Committed + 2].status,
              track |-> log'[Committed + 2].track] = last_track]_vars

\* C16 amended: when a fetch succeeds, update_track_icon asks the player
\* again and presents what the player reports at that moment, whichever
\* track started the fetch; last_track is not read, and stays as it was
\* until update_track_display returns and stores the state that it had
\* queried before the fetch.
C16_RepresentsPlayerState ==
    [][(Committed # 0 /\ player.up)
          => LET k == Committed
             IN /\ log'[k + 1].op = "get_playback_info"
                /\ log'[k + 1].result = [status |-> player.status,
                                         track |-> player.track]
                /\ log'[k + 2].op = "notify"
                /\ log'[k + 2].status = player.status
                /\ log'[k + 2].track = player.track
                /\ last_track' \in {last_track, info}]_vars

\* A fetch has succeeded after the player had moved on, and the state
\* presented again is not the one that started the fetch.
C16_Witness ==
    /\ IsDisplay(log)
    /\ \E k \in Ops(log, "write") :
           /\ log[k].ok /\ Len(log) >= k + 2
           /\ log[k + 2].op = "notify"
           /\ [status |-> log[k + 2].status, track |-> log[k + 2].track]
                  # Queried(log)

\* C17: if committing the artwork fails after the image request was issued
\* (the request, opening the cache file, reading the image or writing it),
\* the cache holds no file for that (artist, album) afterwards.
C17_FailedCommitLeavesNoEntry ==
    [][(/\ fetch # None /\ fetch.phase = "image"
        /\ Summary(log').exc \in {"URLError", "IOError"})
          => get_track_icon_path(fetch.track) \notin files']_vars

\* C18: every state change that update_track_display detects results in a
\* Notify call whose new handle is stored in last_notification, also when
\* the notification of the handle before is gone and the service answers
\* the close request with an error.
C18_EveryChangeNotified ==
    [][(/\ HandlerStarts /\ IsDisplay(log')
        /\ Queried(log') # QueryFailed
        /\ Queried(log') # last_track)
          => /\ Ops(log', "Notify") # {}
             /\ last_notification' # last_notification
             /\ last_notification' \in live']_vars

\* The (status, track) that the last Notify call in lg has shown.
LastShown(lg) ==
    LET n == CHOOSE m \in Ops(lg, "Notify") :
                 \A j \in Ops(lg, "Notify") : j <= m
        k == CHOOSE j \in Ops(lg, "notify") : NotifyOf(lg, j) = n
    IN [status |-> lg[k].status, track |-> lg[k].track]

\* C19: whenever no handler is executing, last_track is None or the
\* (status, track) that the most recent Notify call has shown.
C19_LastTrackIsShown ==
    (fetch = None /\ IsDisplay(log) /\ Ops(log, "Notify") # {})
        => last_track = None \/ last_track = LastShown(log)

\* C20: every invocation of update_track_display issues at most two Notify
\* calls and starts at most one artwork fetch, whatever the player does
\* while the fetch is running.
C20_BoundedInvocation ==
    IsDisplay(log)
        => Summary(log).notifies <= 2 /\ Depth(log) <= 1

====
